---- MODULE Spec2Model ----
(***************************************************************************)
(* Resilient-modulus prediction forms: appbase.py (Base), appsubgrade.py   *)
(* (Subgrade) and appbas11.py (Demo).  Each is a Streamlit script that is  *)
(* re-executed top to bottom on every widget interaction.  One process     *)
(* serves one of the three scripts; the model follows a single script      *)
(* thread through its runs, with the resource cache of load_model living   *)
(* for the whole process.                                                  *)
(*                                                                         *)
(* Numbers are fixed-point integers: every quantity is held in hundredths  *)
(* of its unit (150.0 mm = 15000), hydraulic conductivity in units of      *)
(* 1e-9 cm/s (1e-7 = 100).  Comparisons with 0 are unaffected.             *)
(***************************************************************************)
EXTENDS Integers, Sequences, FiniteSets, TLC

\* Bounds of the exploration.
MaxChanged == 2   \* widgets that differ from their default at the same time

Variants == {"Base", "Subgrade", "Demo"}

(***************************************************************************)
(* The st.number_input widgets of each script: python variable, min_value  *)
(* and default value.                                                      *)
(***************************************************************************)
NumberInputsBase ==
    << [var |-> "layer_thickness",        min |-> 0,   value |-> 15000],
       [var |-> "no_4_passing",           min |-> 0,   value |-> 9000],
       [var |-> "no_10_passing",          min |-> 0,   value |-> 8000],
       [var |-> "no_40_passing",          min |-> 0,   value |-> 6000],
       [var |-> "no_80_passing",          min |-> 0,   value |-> 4000],
       [var |-> "no_200_passing",         min |-> 0,   value |-> 2000],
       [var |-> "liquid_limit",           min |-> 0,   value |-> 2500],
       [var |-> "plastic_limit",          min |-> 0,   value |-> 1500],
       [var |-> "plasticity_index",       min |-> 0,   value |-> 1000],
       [var |-> "spec_gravity",           min |-> 200, value |-> 265],
       [var |-> "max_lab_dry_density",    min |-> 100, value |-> 200],
       [var |-> "optimum_lab_moisture",   min |-> 0,   value |-> 1000],
       [var |-> "hydraulic_conductivity", min |-> 0,   value |-> 100] >>

NumberInputsSubgrade ==
    << [var |-> "no_4_passing",           min |-> 0,   value |-> 9000],
       [var |-> "no_10_passing",          min |-> 0,   value |-> 8000],
       [var |-> "no_40_passing",          min |-> 0,   value |-> 6000],
       [var |-> "no_80_passing",          min |-> 0,   value |-> 4000],
       [var |-> "no_200_passing",         min |-> 0,   value |-> 2000],
       [var |-> "coarse_sand",            min |-> 0,   value |-> 2500],
       [var |-> "fine_sand",              min |-> 0,   value |-> 2500],
       [var |-> "silt",                   min |-> 0,   value |-> 3000],
       [var |-> "clay",                   min |-> 0,   value |-> 2000],
       [var |-> "max_lab_dry_density",    min |-> 100, value |-> 200],
       [var |-> "optimum_lab_moisture",   min |-> 0,   value |-> 1000],
       [var |-> "liquid_limit",           min |-> 0,   value |-> 2500],
       [var |-> "plastic_limit",          min |-> 0,   value |-> 1500] >>

NumberInputsDemo ==
    << [var |-> "repr_thickness",         min |-> 0,   value |-> 15000],
       [var |-> "no_4_passing",           min |-> 0,   value |-> 9000],
       [var |-> "no_10_passing",          min |-> 0,   value |-> 8000],
       [var |-> "no_40_passing",          min |-> 0,   value |-> 6000],
       [var |-> "no_80_passing",          min |-> 0,   value |-> 4000],
       [var |-> "no_200_passing",         min |-> 0,   value |-> 2000],
       [var |-> "liquid_limit",           min |-> 0,   value |-> 2500],
       [var |-> "plastic_limit",          min |-> 0,   value |-> 1500],
       [var |-> "plasticity_index",       min |-> 0,   value |-> 1000],
       [var |-> "spec_gravity",           min |-> 0,   value |-> 265],
       [var |-> "max_lab_dry_density",    min |-> 0,   value |-> 200],
       [var |-> "optimum_lab_moisture",   min |-> 0,   value |-> 1000],
       [var |-> "hydraulic_conductivity", min |-> 0,   value |-> 100] >>

NumberInputs(v) ==
    CASE v = "Base"     -> NumberInputsBase
      [] v = "Subgrade" -> NumberInputsSubgrade
      [] v = "Demo"     -> NumberInputsDemo

\* Faulty variant of aashto_options: the twelve-label list in the Base form.
aashto_options_with_gaps ==
    << "A-1-a", "A-1-b", "A-2-4", "A-2-5", "A-2-6", "A-2-7", "A-3", "A-4", "A-5", "A-6",
       "A-7-5", "A-7-6" >>

\* The options of the st.selectbox of each script (Subgrade has none).
aashto_options ==
    << "A-1-a", "A-1-b", "A-2-4", "A-2-6", "A-2-7", "A-3", "A-4", "A-5", "A-6", "A-7-6" >>

aashto_options_demo ==
    << "A-1-a", "A-1-b", "A-2-4", "A-2-5", "A-2-6", "A-2-7", "A-3", "A-4", "A-5", "A-6",
       "A-7-5", "A-7-6" >>

SelectOptions(v) ==
    CASE v = "Base"     -> aashto_options
      [] v = "Subgrade" -> << "" >>
      [] v = "Demo"     -> aashto_options_demo

\* The dict literal aashto_encoding of the Base script.
aashto_encoding ==
    ("A-1-a" :> 0) @@ ("A-1-b" :> 1) @@ ("A-2-4" :> 2) @@ ("A-2-6" :> 3) @@
    ("A-2-7" :> 4) @@ ("A-3" :> 5) @@ ("A-4" :> 6) @@ ("A-5" :> 7) @@
    ("A-6" :> 8) @@ ("A-7-6" :> 9)

\* Faulty variant of DictGet: d.get(k, 0), a silent default.
DictGetDefault(d, k) ==
    IF k \in DOMAIN d THEN [raised |-> "none", value |-> d[k]]
                      ELSE [raised |-> "none", value |-> 0]

\* Python's d[k]: the value, or KeyError when k is no key of d.
DictGet(d, k) ==
    IF k \in DOMAIN d THEN [raised |-> "none", value |-> d[k]]
                      ELSE [raised |-> "KeyError", value |-> -1]

(***************************************************************************)
(* The dict literal handed to pd.DataFrame in each script: the columns in  *)
(* insertion order, each with the python variable whose value it holds.    *)
(***************************************************************************)
\* Faulty variant of ColumnsBase: LIQUID_LIMIT and PLASTIC_LIMIT change places.
ColumnsBaseSwapped ==
    << <<"REPR_THICKNESS", "layer_thickness">>,
       <<"NO_4_PASSING", "no_4_passing">>,
       <<"NO_10_PASSING", "no_10_passing">>,
       <<"NO_40_PASSING", "no_40_passing">>,
       <<"NO_80_PASSING", "no_80_passing">>,
       <<"NO_200_PASSING", "no_200_passing">>,
       <<"PLASTIC_LIMIT", "plastic_limit">>,
       <<"LIQUID_LIMIT", "liquid_limit">>,
       <<"PLASTICITY_INDEX", "plasticity_index">>,
       <<"AASHTO_SOIL_CLASS", "aashto_class">>,
       <<"SPEC_GRAVITY", "spec_gravity">>,
       <<"MAX_LAB_DRY_DENSITY", "max_lab_dry_density">>,
       <<"OPTIMUM_LAB_MOISTURE", "optimum_lab_moisture">>,
       <<"HYDRAULIC_CONDUCTIVITY", "hydraulic_conductivity">> >>

ColumnsBase ==
    << <<"REPR_THICKNESS", "layer_thickness">>,
       <<"NO_4_PASSING", "no_4_passing">>,
       <<"NO_10_PASSING", "no_10_passing">>,
       <<"NO_40_PASSING", "no_40_passing">>,
       <<"NO_80_PASSING", "no_80_passing">>,
       <<"NO_200_PASSING", "no_200_passing">>,
       <<"LIQUID_LIMIT", "liquid_limit">>,
       <<"PLASTIC_LIMIT", "plastic_limit">>,
       <<"PLASTICITY_INDEX", "plasticity_index">>,
       <<"AASHTO_SOIL_CLASS", "aashto_class">>,
       <<"SPEC_GRAVITY", "spec_gravity">>,
       <<"MAX_LAB_DRY_DENSITY", "max_lab_dry_density">>,
       <<"OPTIMUM_LAB_MOISTURE", "optimum_lab_moisture">>,
       <<"HYDRAULIC_CONDUCTIVITY", "hydraulic_conductivity">> >>

ColumnsSubgrade ==
    << <<"NO_4_PASSING", "no_4_passing">>,
       <<"NO_10_PASSING", "no_10_passing">>,
       <<"NO_40_PASSING", "no_40_passing">>,
       <<"NO_80_PASSING", "no_80_passing">>,
       <<"NO_200_PASSING", "no_200_passing">>,
       <<"COARSE_SAND", "coarse_sand">>,
       <<"FINE_SAND", "fine_sand">>,
       <<"SILT", "silt">>,
       <<"CLAY", "clay">>,
       <<"MAX_LAB_DRY_DENSITY", "max_lab_dry_density">>,
       <<"OPTIMUM_LAB_MOISTURE", "optimum_lab_moisture">>,
       <<"LIQUID_LIMIT", "liquid_limit">>,
       <<"PLASTIC_LIMIT", "plastic_limit">> >>

ColumnsDemo ==
    << <<"REPR_THICKNESS", "repr_thickness">>,
       <<"NO_4_PASSING", "no_4_passing">>,
       <<"NO_10_PASSING", "no_10_passing">>,
       <<"NO_40_PASSING", "no_40_passing">>,
       <<"NO_80_PASSING", "no_80_passing">>,
       <<"NO_200_PASSING", "no_200_passing">>,
       <<"LIQUID_LIMIT", "liquid_limit">>,
       <<"PLASTIC_LIMIT", "plastic_limit">>,
       <<"PLASTICITY_INDEX", "plasticity_index">>,
       <<"AASHTO_SOIL_CLASS", "aashto_soil_class">>,
       <<"SPEC_GRAVITY", "spec_gravity">>,
       <<"MAX_LAB_DRY_DENSITY", "max_lab_dry_density">>,
       <<"OPTIMUM_LAB_MOISTURE", "optimum_lab_moisture">>,
       <<"HYDRAULIC_CONDUCTIVITY", "hydraulic_conductivity">> >>

Columns(v) ==
    CASE v = "Base"     -> ColumnsBase
      [] v = "Subgrade" -> ColumnsSubgrade
      [] v = "Demo"     -> ColumnsDemo

VARIABLES
    variant,            \* which of the three scripts this process serves
    artifact,           \* the model file on disk: "present" or "absent"
    cache,              \* st.cache_resource entry of load_model: "empty", "model", "None"
    loadCalls,          \* number of joblib.load calls made by the process
    session,            \* TRUE once a browser session has opened the page
    widgets,            \* current value of every number_input, by python variable
    selectbox,          \* current value of the AASHTO selectbox
    button,             \* predict button as last rendered: "absent", "disabled", "enabled"
    pc,                 \* position of the script thread; "idle" between runs
    clicked,            \* st.button returns True in the current run
    model,              \* script variable base_model / subgrade_model
    aashto_class,       \* script variable aashto_class (Base), -1 while unbound
    input_data,         \* script variable input_data: <<column, value>> pairs, <<>> while unbound
    all_inputs_filled,  \* the gate's value in this run: "unbound", "True", "False"
    predict_arg,        \* the row handed to model.predict in this run, <<>> if none
    prediction,         \* <<value>> displayed by st.metric in this run, <<>> if none
    messages,           \* st.error / st.warning / st.info / st.success shown in this run
    uncaught,           \* exception that ended the current run, "none" otherwise
    calls,              \* calls of model.predict made in this run
    result,             \* how the click of this run ended: "none", "Success", "Failed",
                        \* "Rejected"
    failed_before       \* some earlier click of the process ended in a prediction error

vars == << variant, artifact, cache, loadCalls, session, widgets, selectbox, button, pc,
           clicked, model, aashto_class, input_data, all_inputs_filled, predict_arg,
           prediction, messages, uncaught, calls, result, failed_before >>

\* What outlives a script run, and what outlives it untouched by its start.
lifetimeVars == << variant, artifact, cache, loadCalls >>
processVars == << lifetimeVars, failed_before >>

SeqRange(s) == { s[i] : i \in 1..Len(s) }


DefaultsOf(inputs) ==
    [ x \in { inputs[i].var : i \in 1..Len(inputs) } |->
        (CHOOSE r \in SeqRange(inputs) : r.var = x).value ]

DefaultsBase == DefaultsOf(NumberInputsBase)
DefaultsSubgrade == DefaultsOf(NumberInputsSubgrade)
DefaultsDemo == DefaultsOf(NumberInputsDemo)

WidgetDefaults(v) ==
    CASE v = "Base"     -> DefaultsBase
      [] v = "Subgrade" -> DefaultsSubgrade
      [] v = "Demo"     -> DefaultsDemo

WidgetVars(v) == DOMAIN WidgetDefaults(v)

\* Values a user can leave in a number_input: its lower bound or its default.
ValuesOf(inputs) ==
    [ x \in { inputs[i].var : i \in 1..Len(inputs) } |->
        LET r == CHOOSE q \in SeqRange(inputs) : q.var = x IN { r.min, r.value } ]

ValuesBase == ValuesOf(NumberInputsBase)
ValuesSubgrade == ValuesOf(NumberInputsSubgrade)
ValuesDemo == ValuesOf(NumberInputsDemo)

WidgetValues(v, x) ==
    CASE v = "Base"     -> ValuesBase[x]
      [] v = "Subgrade" -> ValuesSubgrade[x]
      [] v = "Demo"     -> ValuesDemo[x]

Changed(v, w, s) ==
    Cardinality({ x \in WidgetVars(v) : w[x] # WidgetDefaults(v)[x] })
    + (IF s # SelectOptions(v)[1] THEN 1 ELSE 0)

\* Entry point of a script run.
FirstPc(v) == IF v = "Demo" THEN "button" ELSE "load"

StartRun(c) ==
    /\ clicked' = c
    /\ pc' = FirstPc(variant)
    /\ button' = "absent"
    /\ model' = "unbound"
    /\ aashto_class' = -1
    /\ input_data' = << >>
    /\ all_inputs_filled' = "unbound"
    /\ predict_arg' = << >>
    /\ prediction' = << >>
    /\ messages' = << >>
    /\ uncaught' = "none"
    /\ calls' = 0
    /\ result' = "none"
    /\ failed_before' = (failed_before \/ result = "Failed")

Init ==
    /\ variant \in Variants
    /\ artifact \in {"present", "absent"}
    /\ cache = "empty"
    /\ loadCalls = 0
    /\ session = FALSE
    /\ widgets = WidgetDefaults(variant)
    /\ selectbox = SelectOptions(variant)[1]
    /\ button = "absent"
    /\ pc = "idle"
    /\ clicked = FALSE
    /\ model = "unbound"
    /\ aashto_class = -1
    /\ input_data = << >>
    /\ all_inputs_filled = "unbound"
    /\ predict_arg = << >>
    /\ prediction = << >>
    /\ messages = << >>
    /\ uncaught = "none"
    /\ calls = 0
    /\ result = "none"
    /\ failed_before = FALSE

(***************************************************************************)
(* User and environment events.                                            *)
(***************************************************************************)
\* A browser session opens (or reloads) the page: widgets at their defaults.
NewSession ==
    /\ pc = "idle"
    /\ session' = TRUE
    /\ widgets' = WidgetDefaults(variant)
    /\ selectbox' = SelectOptions(variant)[1]
    /\ StartRun(FALSE)
    /\ UNCHANGED lifetimeVars

\* The user edits one number_input; the script reruns.
SetInput ==
    /\ pc = "idle"
    /\ session
    /\ \E x \in WidgetVars(variant) :
         \E val \in WidgetValues(variant, x) :
            /\ val # widgets[x]
            /\ widgets' = [widgets EXCEPT ![x] = val]
            /\ Changed(variant, widgets', selectbox) <= MaxChanged
    /\ StartRun(FALSE)
    /\ UNCHANGED << lifetimeVars, session, selectbox >>

\* The user picks another option of the selectbox; the script reruns.
SetSelect ==
    /\ pc = "idle"
    /\ session
    /\ \E s \in SeqRange(SelectOptions(variant)) :
            /\ s # selectbox
            /\ selectbox' = s
            /\ Changed(variant, widgets, s) <= MaxChanged
    /\ StartRun(FALSE)
    /\ UNCHANGED << lifetimeVars, session, widgets >>

\* The user clicks the predict button, which the last run rendered enabled.
ClickPredict ==
    /\ pc = "idle"
    /\ button = "enabled"
    /\ StartRun(TRUE)
    /\ UNCHANGED << lifetimeVars, session, widgets, selectbox >>

\* The model file appears on, or disappears from, the disk.
ArtifactChange ==
    /\ artifact' = IF artifact = "present" THEN "absent" ELSE "present"
    /\ UNCHANGED << variant, cache, loadCalls, session, widgets, selectbox, button, pc,
                    clicked, model, aashto_class, input_data, all_inputs_filled,
                    predict_arg, prediction, messages, uncaught, calls, result,
                    failed_before >>

(***************************************************************************)
(* load_model under @st.cache_resource (Base, Subgrade).  The decorator    *)
(* keeps whatever the function returned, None included, for the lifetime   *)
(* of the process; the body runs only on a cache miss.                     *)
(***************************************************************************)
\* Faulty variant of CacheLookup: a cached None counts as a miss.
CacheLookupSkipNone(c) == [hit |-> c = "model", value |-> c]

CacheLookup(c) == [hit |-> c # "empty", value |-> c]

AfterLoad(v) == IF v = "Base" THEN "encode" ELSE "assemble"

\* base_model = load_model(): served from the cache, or the body is entered.
LoadModel ==
    /\ pc = "load"
    /\ IF CacheLookup(cache).hit
          THEN /\ model' = CacheLookup(cache).value
               /\ pc' = AfterLoad(variant)
          ELSE /\ model' = model
               /\ pc' = "loading"
    /\ UNCHANGED << processVars, session, widgets, selectbox, button, clicked,
                    aashto_class, input_data, all_inputs_filled, predict_arg,
                    prediction, messages, uncaught, calls, result >>

\* The body of load_model: joblib.load, with every exception turned into None.
JoblibLoad ==
    /\ pc = "loading"
    /\ loadCalls' = loadCalls + 1
    /\ IF artifact = "present"
          THEN /\ cache' = "model"
               /\ model' = "model"
               /\ messages' = messages
          ELSE /\ cache' = "None"
               /\ model' = "None"
               /\ messages' = messages \o << "error_loading_model", "info_model_file" >>
    /\ pc' = AfterLoad(variant)
    /\ UNCHANGED << variant, artifact, failed_before, session, widgets, selectbox,
                    button, clicked, aashto_class, input_data, all_inputs_filled,
                    predict_arg, prediction, uncaught, calls, result >>

\* aashto_class = aashto_encoding[aashto_class_text] (Base), outside any try.
Encode ==
    /\ pc = "encode"
    /\ LET got == DictGet(aashto_encoding, selectbox)
       IN  IF got.raised = "none"
              THEN /\ aashto_class' = got.value
                   /\ uncaught' = uncaught
                   /\ pc' = "assemble"
              ELSE /\ aashto_class' = aashto_class
                   /\ uncaught' = got.raised
                   /\ pc' = "idle"
    /\ UNCHANGED << processVars, session, widgets, selectbox, button, clicked, model,
                    input_data, all_inputs_filled, predict_arg, prediction, messages,
                    calls, result >>

\* The value of a python variable of the script.
Value(x) ==
    CASE x = "aashto_class"      -> aashto_class
      [] x = "aashto_soil_class" -> selectbox
      [] OTHER                   -> widgets[x]

Row(cols) == [ i \in 1..Len(cols) |-> << cols[i][1], Value(cols[i][2]) >> ]

AfterAssemble(v) == IF v = "Demo" THEN "predict" ELSE "gate"

\* input_data = pd.DataFrame({...}).
Assemble ==
    /\ pc = "assemble"
    /\ input_data' = Row(Columns(variant))
    /\ messages' = IF variant = "Demo" THEN messages \o << "success_all_provided" >>
                                       ELSE messages
    /\ pc' = AfterAssemble(variant)
    /\ UNCHANGED << processVars, session, widgets, selectbox, button, clicked, model,
                    aashto_class, all_inputs_filled, predict_arg, prediction, uncaught,
                    calls, result >>

(***************************************************************************)
(* The gates.                                                              *)
(***************************************************************************)
\* Faulty variant of GateBase: plasticity index compared with > instead of >=.
GateBaseStrictIndex(w) ==
    /\ w["layer_thickness"] > 0
    /\ w["no_4_passing"] > 0
    /\ w["no_10_passing"] > 0
    /\ w["no_40_passing"] > 0
    /\ w["no_80_passing"] > 0
    /\ w["no_200_passing"] > 0
    /\ w["liquid_limit"] > 0
    /\ w["plastic_limit"] > 0
    /\ w["plasticity_index"] > 0
    /\ w["spec_gravity"] > 0
    /\ w["max_lab_dry_density"] > 0
    /\ w["optimum_lab_moisture"] > 0
    /\ w["hydraulic_conductivity"] > 0

\* all_inputs_filled of the Base and of the Subgrade script.
GateBase(w) ==
    /\ w["layer_thickness"] > 0
    /\ w["no_4_passing"] > 0
    /\ w["no_10_passing"] > 0
    /\ w["no_40_passing"] > 0
    /\ w["no_80_passing"] > 0
    /\ w["no_200_passing"] > 0
    /\ w["liquid_limit"] > 0
    /\ w["plastic_limit"] > 0
    /\ w["plasticity_index"] >= 0
    /\ w["spec_gravity"] > 0
    /\ w["max_lab_dry_density"] > 0
    /\ w["optimum_lab_moisture"] > 0
    /\ w["hydraulic_conductivity"] > 0

GateSubgrade(w) ==
    /\ w["no_4_passing"] > 0
    /\ w["no_10_passing"] > 0
    /\ w["no_40_passing"] > 0
    /\ w["no_80_passing"] > 0
    /\ w["no_200_passing"] > 0
    /\ w["coarse_sand"] >= 0
    /\ w["fine_sand"] >= 0
    /\ w["silt"] >= 0
    /\ w["clay"] >= 0
    /\ w["max_lab_dry_density"] > 0
    /\ w["optimum_lab_moisture"] > 0
    /\ w["liquid_limit"] > 0
    /\ w["plastic_limit"] > 0

\* Python truthiness of a float and of a str.
\* Faulty variant of TruthyNumber: a 0 counts as a value given.
TruthyNumberZeroGiven(n) == n >= 0

TruthyNumber(n) == n # 0
TruthyString(s) == s # ""

\* all([...]) over the thirteen numbers and the class label (Demo).
GateDemo(w, s) ==
    /\ TruthyNumber(w["repr_thickness"])
    /\ TruthyNumber(w["no_4_passing"])
    /\ TruthyNumber(w["no_10_passing"])
    /\ TruthyNumber(w["no_40_passing"])
    /\ TruthyNumber(w["no_80_passing"])
    /\ TruthyNumber(w["no_200_passing"])
    /\ TruthyNumber(w["liquid_limit"])
    /\ TruthyNumber(w["plastic_limit"])
    /\ TruthyNumber(w["plasticity_index"])
    /\ TruthyString(s)
    /\ TruthyNumber(w["spec_gravity"])
    /\ TruthyNumber(w["max_lab_dry_density"])
    /\ TruthyNumber(w["optimum_lab_moisture"])
    /\ TruthyNumber(w["hydraulic_conductivity"])

PyBool(b) == IF b THEN "True" ELSE "False"

\* Faulty variant of ButtonState: the button is live in both branches.
ButtonStateAlwaysLive(filled) == "enabled"

\* st.button(..., disabled=True) in the branch of the unfilled form, the live
\* button in the other.

ButtonState(filled) == IF filled THEN "enabled" ELSE "disabled"

\* Where the script goes after the gate (Base, Subgrade): the disabled button
\* ends the run, the enabled one enters its body only in the run of a click.
AfterGate(filled, c) == IF ~filled THEN "idle" ELSE IF c THEN "predict" ELSE "idle"

\* all_inputs_filled = (...); if not all_inputs_filled: ... else: if st.button(...):
Gate ==
    /\ pc = "gate"
    /\ variant # "Demo"
    /\ LET filled == IF variant = "Base" THEN GateBase(widgets)
                                         ELSE GateSubgrade(widgets)
       IN  /\ all_inputs_filled' = PyBool(filled)
           /\ button' = ButtonState(filled)
           /\ messages' = IF filled THEN messages
                                    ELSE messages \o << "warning_fill_in_all" >>
           /\ pc' = AfterGate(filled, clicked)
    /\ UNCHANGED << processVars, session, widgets, selectbox, clicked, model,
                    aashto_class, input_data, predict_arg, prediction, uncaught,
                    calls, result >>

(***************************************************************************)
(* The body of the predict button (Base, Subgrade).                        *)
(***************************************************************************)
\* Faulty variant of ModelLoaded: the None check left out.
ModelLoadedUnchecked(m) == TRUE

\* if base_model is not None:

ModelLoaded(m) == m # "None"

\* What the estimator's predict can do with the row; None has no predict.
PredictOutcomes(m) == IF m = "model" THEN {"ok", "raise"} ELSE {"raise"}

\* Faulty variant of TryPredict: no except clause around the call.
TryPredictUncaught(outcome) ==
    IF outcome = "ok"
       THEN [calls |-> 1, result |-> "Success", uncaught |-> "none",
             msgs |-> << "success_prediction" >>, shown |-> << "estimate" >>]
       ELSE [calls |-> 1, result |-> "Failed", uncaught |-> "Exception",
             msgs |-> << >>, shown |-> << >>]

\* Faulty variant of TryPredict: a failed call is made once more before giving up.
TryPredictRetry(outcome) ==
    IF outcome = "ok"
       THEN [calls |-> 1, result |-> "Success", uncaught |-> "none",
             msgs |-> << "success_prediction" >>, shown |-> << "estimate" >>]
       ELSE [calls |-> 2, result |-> "Failed", uncaught |-> "none",
             msgs |-> << "error_prediction", "warning_check_features" >>,
             shown |-> << >>]

\* try: prediction = model.predict(input_data)[0] ... except Exception as e: ...
TryPredict(outcome) ==
    IF outcome = "ok"
       THEN [calls |-> 1, result |-> "Success", uncaught |-> "none",
             msgs |-> << "success_prediction" >>, shown |-> << "estimate" >>]
       ELSE [calls |-> 1, result |-> "Failed", uncaught |-> "none",
             msgs |-> << "error_prediction", "warning_check_features" >>,
             shown |-> << >>]

Predict ==
    /\ pc = "predict"
    /\ variant # "Demo"
    /\ IF ModelLoaded(model)
          THEN \E outcome \in PredictOutcomes(model) :
                 LET e == TryPredict(outcome)
                 IN  /\ calls' = calls + (IF model = "model" THEN e.calls ELSE 0)
                     /\ predict_arg' = IF model = "model" THEN input_data ELSE predict_arg
                     /\ prediction' = e.shown
                     /\ messages' = messages \o e.msgs
                     /\ uncaught' = e.uncaught
                     /\ result' = e.result
          ELSE /\ messages' = messages \o << "error_model_not_loaded" >>
               /\ result' = "Rejected"
               /\ UNCHANGED << calls, predict_arg, prediction, uncaught >>
    /\ pc' = "idle"
    /\ UNCHANGED << processVars, session, widgets, selectbox, button, clicked, model,
                    aashto_class, input_data, all_inputs_filled >>

(***************************************************************************)
(* The Demo script: the button first, the gate inside its body.            *)
(***************************************************************************)
\* if st.button(...):
DemoButton ==
    /\ pc = "button"
    /\ button' = "enabled"
    /\ pc' = IF clicked THEN "gate" ELSE "idle"
    /\ UNCHANGED << processVars, session, widgets, selectbox, clicked, model,
                    aashto_class, input_data, all_inputs_filled, predict_arg,
                    prediction, messages, uncaught, calls, result >>

\* Faulty variant of AfterDemoGate: the record is built whatever all() says.
AfterDemoGateAlways(ok) == "assemble"

\* if all([...]): ... else: st.error(...)

AfterDemoGate(ok) == IF ok THEN "assemble" ELSE "idle"

\* if all([...]): ... else: st.error(...)
DemoGate ==
    /\ pc = "gate"
    /\ variant = "Demo"
    /\ LET ok == GateDemo(widgets, selectbox)
       IN  /\ all_inputs_filled' = PyBool(ok)
           /\ pc' = AfterDemoGate(ok)
           /\ IF AfterDemoGate(ok) = "assemble"
                 THEN UNCHANGED << messages, result >>
                 ELSE /\ messages' = messages \o << "error_fill_in_all" >>
                      /\ result' = "Rejected"
    /\ UNCHANGED << processVars, session, widgets, selectbox, button, clicked, model,
                    aashto_class, input_data, predict_arg, prediction, uncaught, calls >>

\* The inline formula, in units of 0.005 MPa.
DemoFormula(w) ==
    w["repr_thickness"] + w["max_lab_dry_density"] * 2000 + w["spec_gravity"] * 1000
    - w["optimum_lab_moisture"] * 100 + w["no_4_passing"] * 4

\* predicted_modulus = (...); st.metric(...)
DemoPredict ==
    /\ pc = "predict"
    /\ variant = "Demo"
    /\ prediction' = << DemoFormula(widgets) >>
    /\ messages' = messages \o << "info_demo_note", "warning_implementation_required" >>
    /\ result' = "Success"
    /\ pc' = "idle"
    /\ UNCHANGED << processVars, session, widgets, selectbox, button, clicked, model,
                    aashto_class, input_data, all_inputs_filled, predict_arg, uncaught,
                    calls >>

Next ==
    \/ NewSession
    \/ SetInput
    \/ SetSelect
    \/ ClickPredict
    \/ ArtifactChange
    \/ LoadModel
    \/ JoblibLoad
    \/ Encode
    \/ Assemble
    \/ Gate
    \/ Predict
    \/ DemoButton
    \/ DemoGate
    \/ DemoPredict

Spec == Init /\ [][Next]_vars

(***************************************************************************)
(* The Base assembler on its own: the lookup, the row and the gate applied *)
(* to every AASHTO class label, selectable in the Base form or not.        *)
(***************************************************************************)
AashtoLabels == SeqRange(aashto_options_demo)

\* The Base forms in which at most MaxChanged inputs sit at their lower bound.
BaseForms ==
    { [ x \in WidgetVars("Base") |->
          IF x \in moved THEN NumberInputsBase[CHOOSE i \in 1..Len(NumberInputsBase) :
                                                 NumberInputsBase[i].var = x].min
                          ELSE DefaultsBase[x] ] :
      moved \in { m \in SUBSET WidgetVars("Base") : Cardinality(m) <= MaxChanged } }

InitAssembler ==
    /\ variant = "Base"
    /\ artifact = "present"
    /\ cache = "model"
    /\ loadCalls = 1
    /\ session = TRUE
    /\ widgets \in BaseForms
    /\ selectbox \in AashtoLabels
    /\ Changed("Base", widgets, selectbox) <= MaxChanged
    /\ button = "absent"
    /\ pc = "encode"
    /\ clicked = FALSE
    /\ model = "model"
    /\ aashto_class = -1
    /\ input_data = << >>
    /\ all_inputs_filled = "unbound"
    /\ predict_arg = << >>
    /\ prediction = << >>
    /\ messages = << >>
    /\ uncaught = "none"
    /\ calls = 0
    /\ result = "none"
    /\ failed_before = FALSE

NextAssembler ==
    \/ Encode
    \/ Assemble
    \/ Gate

SpecAssembler == InitAssembler /\ [][NextAssembler]_vars

(***************************************************************************)
(* Properties.                                                             *)
(***************************************************************************)
\* The loader's state, read off the resource cache and the script position.
LoaderState ==
    CASE pc = "loading"  -> "Loading"
      [] cache = "empty" -> "Uninitialized"
      [] cache = "model" -> "Ready"
      [] cache = "None"  -> "Unavailable"

Shown(m) == m \in SeqRange(messages)

\* C1: the loader moves Uninitialized -> Loading -> {Ready | Unavailable} and
\* nowhere else: from Ready every step (reruns, predict triggers that succeed
\* or fail) leaves it Ready and makes no further joblib.load call; from
\* Unavailable every step leaves it Unavailable and makes no further load call.
C1_LoaderLifecycle ==
    [][ /\ LoaderState = "Uninitialized" => LoaderState' \in {"Uninitialized", "Loading"}
        /\ LoaderState = "Loading" => LoaderState' \in {"Loading", "Ready", "Unavailable"}
        /\ LoaderState = "Ready" => (LoaderState' = "Ready" /\ loadCalls' = loadCalls)
        /\ LoaderState = "Unavailable" =>
              (LoaderState' = "Unavailable" /\ loadCalls' = loadCalls)
        /\ LoaderState \in {"Uninitialized", "Loading"} \/ loadCalls = 1 ]_vars

\* A Ready loader that has served a failed and then a successful trigger, with
\* the file gone from the disk meanwhile.
C1_Witness ==
    /\ variant \in {"Base", "Subgrade"}
    /\ LoaderState = "Ready"
    /\ failed_before
    /\ result = "Success"
    /\ artifact = "absent"
    /\ loadCalls = 1

\* C2: once the load has failed (Base, Subgrade) it has been attempted exactly
\* once and is not attempted again; every click ends in the "model not loaded"
\* error, with no inference call and no uncaught exception.
C2_UnavailableRejects ==
    (variant \in {"Base", "Subgrade"} /\ cache = "None") =>
        /\ loadCalls = 1
        /\ pc # "loading"
        /\ calls = 0
        /\ predict_arg = << >>
        /\ prediction = << >>
        /\ uncaught = "none"
        /\ result \in {"none", "Rejected"}
        /\ ~failed_before
        /\ (pc = "idle" /\ clicked) =>
              (result = "Rejected" /\ Shown("error_model_not_loaded"))

\* A click rejected while the file is back on the disk.
C2_Witness ==
    /\ variant \in {"Base", "Subgrade"}
    /\ cache = "None"
    /\ artifact = "present"
    /\ pc = "idle"
    /\ clicked
    /\ result = "Rejected"
    /\ Shown("error_model_not_loaded")

\* C3: when inference raises under a Ready loader, the run shows the prediction
\* error and the feature-name guidance, ends without an uncaught exception,
\* leaves the cache and the loaded model as they were and the button live for
\* the next attempt.
C3_FailureIsContained ==
    [][ (/\ pc = "predict" /\ pc' # "predict"
         /\ variant # "Demo" /\ model = "model" /\ result' # "Success") =>
            /\ result' = "Failed"
            /\ messages' = messages \o << "error_prediction", "warning_check_features" >>
            /\ uncaught' = "none"
            /\ LoaderState' = "Ready"
            /\ cache' = cache
            /\ model' = model
            /\ loadCalls' = loadCalls
            /\ pc' = "idle"
            /\ button' = "enabled" ]_vars

\* A successful prediction after an earlier failed one.
C3_Witness ==
    /\ variant \in {"Base", "Subgrade"}
    /\ failed_before
    /\ result = "Success"
    /\ prediction # << >>
    /\ pc = "idle"

\* The gate's verdict on the values the form holds now.
InputsPassGate ==
    CASE variant = "Base"     -> GateBase(widgets)
      [] variant = "Subgrade" -> GateSubgrade(widgets)
      [] variant = "Demo"     -> GateDemo(widgets, selectbox)

\* C4 as stated: in every variant a record exists only for inputs that pass
\* the gate.
C4_Original == (input_data # << >>) => InputsPassGate

\* C4, amended: in the Demo variant a record exists only for inputs of which
\* every value is truthy; in Base and Subgrade the record is built in every
\* run before the gate is evaluated, ready or not, and a row reaches
\* model.predict only in a run whose gate was ready.
C4_RecordAndGate ==
    /\ (variant = "Demo" /\ input_data # << >>) =>
          (/\ \A x \in DOMAIN widgets : widgets[x] # 0
           /\ selectbox # ""
           /\ all_inputs_filled = "True")
    /\ (variant \in {"Base", "Subgrade"} /\ all_inputs_filled # "unbound") =>
          (Len(input_data) = Len(Columns(variant)))
    /\ (predict_arg # << >>) => (all_inputs_filled = "True" /\ predict_arg = input_data)

\* A Base run whose gate is not ready and whose record is built all the same.
C4_Witness ==
    /\ variant = "Base"
    /\ all_inputs_filled = "False"
    /\ widgets["no_4_passing"] = 0
    /\ Len(input_data) = 14
    /\ pc = "idle"

\* The comparison each field has to pass, by variant (Base, Subgrade).
NonNegativeFields ==
    IF variant = "Base" THEN {"plasticity_index"}
                        ELSE {"coarse_sand", "fine_sand", "silt", "clay"}

FieldPasses(x) ==
    IF x \in NonNegativeFields THEN widgets[x] >= 0 ELSE widgets[x] > 0

\* C5: model.predict is called only in a run that a click started, whose gate
\* is ready and whose loader is Ready; a run whose gate is not ready renders
\* the disabled button with the warning, makes no inference call and ends.
C5_InferenceOnlyWhenReady ==
    [][ /\ (calls' > calls) =>
              (/\ variant \in {"Base", "Subgrade"}
               /\ clicked
               /\ all_inputs_filled = "True"
               /\ \A x \in DOMAIN widgets : FieldPasses(x)
               /\ LoaderState = "Ready"
               /\ model = "model")
        /\ (all_inputs_filled' = "False" /\ variant \in {"Base", "Subgrade"}) =>
              (/\ button' = "disabled"
               /\ Shown("warning_fill_in_all")'
               /\ calls' = 0
               /\ predict_arg' = << >>
               /\ pc' = "idle") ]_vars

\* An inference call made for a form that passes the gate with clay at 0.
C5_Witness ==
    /\ variant = "Subgrade"
    /\ clicked
    /\ calls = 1
    /\ all_inputs_filled = "True"
    /\ widgets["clay"] = 0
    /\ pc = "idle"

\* C6: a run that a click started under a Ready loader calls model.predict
\* exactly once, with the assembled row, whether the call succeeds or fails; a
\* run no click started makes no inference call, so after a failure the next
\* call waits for the next click.
C6_OneCallPerTrigger ==
    /\ calls <= 1
    /\ ~clicked => (calls = 0 /\ result = "none")
    /\ (variant \in {"Base", "Subgrade"} /\ pc = "idle" /\ clicked /\ model = "model") =>
          (/\ calls = 1
           /\ result \in {"Success", "Failed"}
           /\ input_data # << >>
           /\ predict_arg = input_data)
    /\ (result = "Failed") => (calls = 1 /\ pc = "idle")

\* A second failed inference, one click after the first.
C6_Witness ==
    /\ variant \in {"Base", "Subgrade"}
    /\ failed_before
    /\ result = "Failed"
    /\ calls = 1
    /\ pc = "idle"

\* The integer documented for each class label; -1 where none is documented.
DocumentedCode(label) ==
    CASE label = "A-1-a" -> 0
      [] label = "A-1-b" -> 1
      [] label = "A-2-4" -> 2
      [] label = "A-2-6" -> 3
      [] label = "A-2-7" -> 4
      [] label = "A-3"   -> 5
      [] label = "A-4"   -> 6
      [] label = "A-5"   -> 7
      [] label = "A-6"   -> 8
      [] label = "A-7-6" -> 9
      [] OTHER           -> -1

C8_Original ==
    variant = "Base" => {"A-2-5", "A-7-5"} \subseteq SeqRange(SelectOptions(variant))

\* C8, amended: the Base form offers exactly the ten labels of the encoding
\* table, so the label it holds always has an entry and its lookup, though
\* outside the prediction error handler, never raises; "A-2-5" and "A-7-5"
\* are offered by the Demo form alone, which makes no lookup.
C8_BaseLookupNeverFails ==
    /\ variant = "Base" =>
          (/\ selectbox \in DOMAIN aashto_encoding
           /\ selectbox \notin {"A-2-5", "A-7-5"}
           /\ uncaught = "none"
           /\ (input_data # << >>) => (aashto_class = DocumentedCode(selectbox)))
    /\ (selectbox \in {"A-2-5", "A-7-5"}) => (variant = "Demo" /\ aashto_class = -1)

\* The last option of the Base form, encoded and predicted on.
C8_Witness ==
    /\ variant = "Base"
    /\ selectbox = "A-7-6"
    /\ aashto_class = 9
    /\ result = "Success"
    /\ pc = "idle"

\* The schema of each variant and the input field behind each column.
SchemaBase ==
    << "REPR_THICKNESS", "NO_4_PASSING", "NO_10_PASSING", "NO_40_PASSING", "NO_80_PASSING",
       "NO_200_PASSING", "LIQUID_LIMIT", "PLASTIC_LIMIT", "PLASTICITY_INDEX",
       "AASHTO_SOIL_CLASS", "SPEC_GRAVITY", "MAX_LAB_DRY_DENSITY", "OPTIMUM_LAB_MOISTURE",
       "HYDRAULIC_CONDUCTIVITY" >>

SchemaSubgrade ==
    << "NO_4_PASSING", "NO_10_PASSING", "NO_40_PASSING", "NO_80_PASSING", "NO_200_PASSING",
       "COARSE_SAND", "FINE_SAND", "SILT", "CLAY", "MAX_LAB_DRY_DENSITY",
       "OPTIMUM_LAB_MOISTURE", "LIQUID_LIMIT", "PLASTIC_LIMIT" >>

Schema == IF variant = "Subgrade" THEN SchemaSubgrade ELSE SchemaBase

FieldOf(column) ==
    CASE column = "REPR_THICKNESS" ->
             (IF variant = "Base" THEN "layer_thickness" ELSE "repr_thickness")
      [] column = "NO_4_PASSING"           -> "no_4_passing"
      [] column = "NO_10_PASSING"          -> "no_10_passing"
      [] column = "NO_40_PASSING"          -> "no_40_passing"
      [] column = "NO_80_PASSING"          -> "no_80_passing"
      [] column = "NO_200_PASSING"         -> "no_200_passing"
      [] column = "LIQUID_LIMIT"           -> "liquid_limit"
      [] column = "PLASTIC_LIMIT"          -> "plastic_limit"
      [] column = "PLASTICITY_INDEX"       -> "plasticity_index"
      [] column = "SPEC_GRAVITY"           -> "spec_gravity"
      [] column = "MAX_LAB_DRY_DENSITY"    -> "max_lab_dry_density"
      [] column = "OPTIMUM_LAB_MOISTURE"   -> "optimum_lab_moisture"
      [] column = "HYDRAULIC_CONDUCTIVITY" -> "hydraulic_conductivity"
      [] column = "COARSE_SAND"            -> "coarse_sand"
      [] column = "FINE_SAND"              -> "fine_sand"
      [] column = "SILT"                   -> "silt"
      [] column = "CLAY"                   -> "clay"

\* C9: whenever a record exists its columns are those of the variant's
\* schema, in the schema's order, each holding the value of its input field:
\* the encoded class in Base, the raw label in Demo.
C9_RowMatchesSchema ==
    (input_data # << >>) =>
        /\ Len(input_data) = Len(Schema)
        /\ Len(Schema) = (IF variant = "Subgrade" THEN 13 ELSE 14)
        /\ \A i \in 1..Len(Schema) :
              /\ input_data[i][1] = Schema[i]
              /\ IF Schema[i] = "AASHTO_SOIL_CLASS"
                    THEN IF variant = "Base"
                            THEN input_data[i][2] = DocumentedCode(selectbox)
                            ELSE input_data[i][2] = selectbox
                    ELSE input_data[i][2] = widgets[FieldOf(Schema[i])]

\* The Base row for class "A-4", all inputs at their defaults, handed to
\* inference with the class encoded as 6.
C9_Witness ==
    /\ variant = "Base"
    /\ selectbox = "A-4"
    /\ widgets = WidgetDefaults("Base")
    /\ predict_arg = input_data
    /\ Len(predict_arg) = 14
    /\ predict_arg[1] = << "REPR_THICKNESS", 15000 >>
    /\ predict_arg[10] = << "AASHTO_SOIL_CLASS", 6 >>
    /\ predict_arg[14] = << "HYDRAULIC_CONDUCTIVITY", 100 >>
    /\ calls = 1

\* C10: in Base and Subgrade the gate is ready iff every field passes its own
\* comparison, > 0 or, for plasticity index (Base) and coarse sand, fine sand,
\* silt and clay (Subgrade), >= 0.
C10_GateIsFieldwise ==
    (variant \in {"Base", "Subgrade"} /\ all_inputs_filled # "unbound") =>
        /\ (all_inputs_filled = "True") <=> (\A x \in DOMAIN widgets : FieldPasses(x))
        /\ (\E x \in DOMAIN widgets \ NonNegativeFields : widgets[x] = 0) =>
              (all_inputs_filled = "False")
        /\ (\A x \in DOMAIN widgets \ NonNegativeFields : widgets[x] > 0) =>
              (all_inputs_filled = "True")

\* Subgrade with clay = 0 and every other field positive: accepted.
C10_Witness ==
    /\ variant = "Subgrade"
    /\ widgets["clay"] = 0
    /\ \A x \in DOMAIN widgets \ {"clay"} : widgets[x] > 0
    /\ all_inputs_filled = "True"
    /\ button = "enabled"

\* C11: in the Demo variant the gate is evaluated only in a run a click
\* started, and it is ready iff every one of the thirteen numbers is non-zero
\* and the class label non-empty; when it is not ready (plasticity index 0
\* included) the run shows the "fill in all required parameters" error and
\* builds no record and no predicted value.
C11_DemoGateIsAllTruthy ==
    (variant = "Demo" /\ all_inputs_filled # "unbound") =>
        /\ clicked
        /\ Cardinality(DOMAIN widgets) + 1 = 14
        /\ (all_inputs_filled = "True") <=>
              ((\A x \in DOMAIN widgets : widgets[x] # 0) /\ selectbox # "")
        /\ (widgets["plasticity_index"] = 0) => (all_inputs_filled = "False")
        /\ (all_inputs_filled = "False") =>
              (/\ Shown("error_fill_in_all")
               /\ result = "Rejected"
               /\ input_data = << >>
               /\ prediction = << >>
               /\ pc = "idle")
        /\ (all_inputs_filled = "True" /\ pc = "idle") =>
              (/\ result = "Success"
               /\ Len(input_data) = 14
               /\ prediction # << >>)

\* A click on the Demo form with plasticity index 0 and every other value at
\* its non-zero default: rejected.
C11_Witness ==
    /\ variant = "Demo"
    /\ clicked
    /\ widgets["plasticity_index"] = 0
    /\ \A x \in DOMAIN widgets \ {"plasticity_index"} : widgets[x] # 0
    /\ all_inputs_filled = "False"
    /\ Shown("error_fill_in_all")
    /\ input_data = << >>
    /\ prediction = << >>
    /\ pc = "idle"

====
